---- MODULE Spec2Model ----
(***************************************************************************)
(* Account lifecycle and notification inbox of the crypto-monitor backend:  *)
(* the users, notifications and notification_settings tables, the Redis    *)
(* store of e-mail verification codes, and the request handlers of         *)
(* app/api/v1/endpoints (auth, oauth, users, notifications) with the CRUD  *)
(* layer they call.  Times are in seconds.                                 *)
(***************************************************************************)
EXTENDS Integers, Sequences, FiniteSets, TLC

VARIABLES users, codes, clock, resp, procs,
          notifications, notification_settings

vars == <<users, codes, clock, resp, procs,
         notifications, notification_settings>>

----------------------------------------------------------------------------
(* Bounds of the model *)

MaxUsers == 2
MaxTime == 350
TickStep == 300

(* Input alphabets *)
Usernames == {"alice", "user_a"}
GenNames == {"user_a", "user_b"}
Emails == {"e1", "e2"}
Passwords == {"pw1"}
Codes == {"c1", "c2"}
DeviceIds == {"d1", "d2"}
Providers == {"google", "apple"}
Subjects == {"s1"}

(* Python None for string columns, for timestamps, and for "no row" *)
None == "None"
NoTime == 0 - 1
NoUser == 0

(* Program constants *)
TRIAL_PERIOD_DAYS == 3
TRIAL_MAX_FOLLOWS == 5
CodeTTL == 300
DaySeconds == 86400

----------------------------------------------------------------------------
(* app.core.security *)

get_password_hash(pw) == <<"hash", pw>>

----------------------------------------------------------------------------
(* The users table *)

Ids(us) == 1..Len(us)

get_by_email(us, e) ==
    IF e # None /\ \E i \in Ids(us) : us[i].email = e
    THEN CHOOSE i \in Ids(us) : us[i].email = e
    ELSE NoUser

get_by_username(us, u) ==
    IF \E i \in Ids(us) : us[i].username = u
    THEN CHOOSE i \in Ids(us) : us[i].username = u
    ELSE NoUser

get_by_device_id(us, d) ==
    IF d # None /\ \E i \in Ids(us) : us[i].device_id = d
    THEN CHOOSE i \in Ids(us) : us[i].device_id = d
    ELSE NoUser

(* the lookup finds nothing *)
get_by_oauth_provider_none(us, p, s) == {}

(* rows matching (oauth_provider, oauth_provider_id); .first() takes one *)
get_by_oauth_provider(us, p, s) ==
    {i \in Ids(us) : us[i].oauth_provider = p /\ us[i].oauth_provider_id = s}

(* the table without the unique index on username *)
ConstraintsOk_username_not_unique(us, row) ==
    /\ row.username # None
    /\ row.email # None
    /\ \A i \in Ids(us) : us[i].email # row.email
    /\ row.device_id # None => \A i \in Ids(us) : us[i].device_id # row.device_id

(* column constraints of the users table, enforced at commit *)
ConstraintsOk(us, row) ==
    /\ row.username # None
    /\ row.email # None
    /\ \A i \in Ids(us) : us[i].username # row.username
    /\ \A i \in Ids(us) : us[i].email # row.email
    /\ row.device_id # None => \A i \in Ids(us) : us[i].device_id # row.device_id

NewRow(username, email, hashed, t) ==
    [username |-> username, email |-> email, hashed_password |-> hashed,
     user_type |-> "trial", status |-> "active",
     device_id |-> None,
     oauth_provider |-> None, oauth_provider_id |-> None,
     oauth_email_verified |-> FALSE,
     trial_start_date |-> t,
     trial_end_date |-> t + TRIAL_PERIOD_DAYS * DaySeconds,
     subscription_end_date |-> NoTime,
     max_follows |-> TRIAL_MAX_FOLLOWS, current_follows |-> 0,
     (* updated_at, user_agent, ip_address and the notification toggles are *)
     (* written but never read by the handlers; they are left out          *)
     created_at |-> t, last_login_at |-> t]

(* CRUDUser.create_user: the row it adds; device_id is not copied *)
create_user(username, email, password, t) ==
    NewRow(username, email, get_password_hash(password), t)

(* the quota is left as it was *)
set_trial_period_keep_quota(us, id, days, t) ==
    [us EXCEPT ![id] = [@ EXCEPT !.trial_start_date = t,
                                 !.trial_end_date = t + days * DaySeconds,
                                 !.user_type = "trial"]]

set_trial_period(us, id, days, t) ==
    [us EXCEPT ![id] = [@ EXCEPT !.trial_start_date = t,
                                 !.trial_end_date = t + days * DaySeconds,
                                 !.user_type = "trial",
                                 !.max_follows = TRIAL_MAX_FOLLOWS]]

(* the login restarts the trial window as well *)
update_last_login_restarts_trial(us, id, t) ==
    [us EXCEPT ![id] = [@ EXCEPT !.last_login_at = t,
                                 !.trial_start_date = t,
                                 !.trial_end_date = t + TRIAL_PERIOD_DAYS * DaySeconds]]

update_last_login(us, id, t) ==
    [us EXCEPT ![id] = [@ EXCEPT !.last_login_at = t]]

(* usernames generate_unique_username can return: a candidate no row holds *)
generate_unique_username(us) ==
    {g \in GenNames : get_by_username(us, g) = NoUser}

create_oauth_user(username, info, t) ==
    [NewRow(username, info.email, None, t) EXCEPT
        !.oauth_provider = info.provider,
        !.oauth_provider_id = info.provider_id,
        !.oauth_email_verified = info.email_verified]

(* the link is not written *)
link_oauth_account_noop(us, id, info, t) == us

link_oauth_account(us, id, info, t) ==
    [us EXCEPT ![id] = [@ EXCEPT !.oauth_provider = info.provider,
                                 !.oauth_provider_id = info.provider_id,
                                 !.oauth_email_verified = info.email_verified]]

----------------------------------------------------------------------------
(* app.core.email: verification codes in Redis, key verification_code:<email> *)

NoCode == [code |-> None, created_at |-> NoTime, expires_at |-> NoTime,
           ttl_until |-> NoTime]

(* SETEX key expires_in data *)
store_verification_code(cs, e, code, t) ==
    [cs EXCEPT ![e] = [code |-> code, created_at |-> t,
                       expires_at |-> t + CodeTTL, ttl_until |-> t + CodeTTL]]

(* keys whose TTL has run out are gone *)
Expire(cs, t) ==
    [e \in DOMAIN cs |-> IF cs[e] # NoCode /\ cs[e].ttl_until <= t
                         THEN NoCode ELSE cs[e]]

(* the stored code is not compared with the one presented *)
verify_code_any_code(cs, e, code, t) ==
    /\ cs[e] # NoCode
    /\ t <= cs[e].expires_at

(* result of EmailService.verify_code *)
verify_code(cs, e, code, t) ==
    /\ cs[e] # NoCode
    /\ cs[e].code = code
    /\ t <= cs[e].expires_at

(* the key is not deleted *)
verify_code_store_keep(cs, e, code, t) == cs

(* the store after EmailService.verify_code: the key is deleted on success *)
verify_code_store(cs, e, code, t) ==
    IF verify_code(cs, e, code, t) THEN [cs EXCEPT ![e] = NoCode] ELSE cs

----------------------------------------------------------------------------
(* The outcome of the last request *)

NoResp == [op |-> "none", status |-> 0, detail |-> "none", uid |-> NoUser,
           is_new_user |-> FALSE, username |-> None, email |-> None,
           code |-> None, key |-> <<>>, verified |-> FALSE,
           created |-> FALSE, repeat |-> FALSE, reverify |-> FALSE,
           body |-> <<>>]

Init ==
    /\ users = <<>>
    /\ codes = [e \in Emails |-> NoCode]
    /\ clock = 0
    /\ resp = NoResp
    /\ procs = <<>>
    /\ notifications = <<>>
    /\ notification_settings = <<>>

Tick ==
    /\ clock + TickStep <= MaxTime
    /\ clock' = clock + TickStep
    /\ codes' = Expire(codes, clock')
    /\ UNCHANGED <<users, resp, procs, notifications, notification_settings>>

(* POST /auth/send_verification_code *)
send_verification_code(e) ==
    /\ IF get_by_email(users, e) # NoUser
       THEN /\ resp' = [NoResp EXCEPT !.op = "send_code", !.status = 400,
                                      !.detail = "email_registered", !.email = e]
            /\ UNCHANGED codes
       ELSE \E c \in Codes :
            /\ codes' = store_verification_code(codes, e, c, clock)
            /\ resp' = [NoResp EXCEPT !.op = "send_code", !.status = 200,
                                      !.detail = "sent", !.email = e, !.code = c]
    /\ UNCHANGED <<users, clock, procs, notifications, notification_settings>>

(* app.core.config.Settings: the fields the handlers read *)
SettingsFields == {"ACCESS_TOKEN_EXPIRE_MINUTES", "REFRESH_TOKEN_EXPIRE_DAYS",
                   "TRIAL_PERIOD_DAYS", "TRIAL_MAX_FOLLOWS", "SECRET_KEY"}

(* settings.<name> raises AttributeError for a field Settings does not declare *)
HasSetting(name) == name \in SettingsFields

(* the token envelope: both expiry settings are read before it is built *)
TokenEnvelopeStatus ==
    IF HasSetting("ACCESS_TOKEN_EXPIRE_MINUTES")
       /\ HasSetting("REFRESH_TOKEN_EXPIRE_MINUTES")
    THEN 200 ELSE 500

(* obj_in.password: attribute access works on a schema object, not on a dict *)
HasAttr(kind) == kind = "UserRegister"

(* the times at which a later statement of the same request can run *)
Later(t) == {t2 \in {t, t + TickStep} : t2 <= MaxTime}

(* register_user's uniqueness checks, in the order the handler makes them *)
register_conflict_username_first(us, u, e) ==
    IF get_by_username(us, u) # NoUser THEN "dup_username"
    ELSE IF get_by_email(us, e) # NoUser THEN "dup_email"
    ELSE "none"

register_conflict(us, u, e) ==
    IF get_by_email(us, e) # NoUser THEN "dup_email"
    ELSE IF get_by_username(us, u) # NoUser THEN "dup_username"
    ELSE "none"

(* POST /auth/register *)
register_user(u, e, pw, c) ==
    LET ok == verify_code(codes, e, c, clock)
        cs1 == verify_code_store(codes, e, c, clock)
        rep == resp.op = "register" /\ resp.created
               /\ resp.username = u /\ resp.email = e
        rev == resp.op = "register" /\ resp.verified
               /\ resp.email = e /\ resp.code = c
        base == [NoResp EXCEPT !.op = "register", !.username = u, !.email = e,
                               !.code = c, !.verified = ok, !.repeat = rep,
                               !.reverify = rev]
        row == create_user(u, e, pw, clock)
    IN  /\ UNCHANGED <<procs, notifications, notification_settings>>
        /\ IF ~ok
           THEN /\ resp' = [base EXCEPT !.status = 400, !.detail = "bad_code"]
                /\ UNCHANGED <<users, codes, clock>>
           ELSE IF register_conflict(users, u, e) # "none"
           THEN /\ resp' = [base EXCEPT !.status = 400,
                                        !.detail = register_conflict(users, u, e)]
                /\ codes' = cs1
                /\ UNCHANGED <<users, clock>>
           ELSE IF ~HasAttr("UserRegister") \/ ~ConstraintsOk(users, row)
           THEN /\ resp' = [base EXCEPT !.status = 500, !.detail = "create_failed"]
                /\ codes' = cs1
                /\ UNCHANGED <<users, clock>>
           ELSE /\ Len(users) < MaxUsers
                /\ \E t2 \in Later(clock) :
                     /\ users' = set_trial_period(Append(users, row),
                                     Len(users) + 1, TRIAL_PERIOD_DAYS, t2)
                     /\ clock' = t2
                     /\ codes' = Expire(cs1, t2)
                /\ resp' = [base EXCEPT !.status = TokenEnvelopeStatus,
                                        !.detail = "created", !.created = TRUE,
                                        !.uid = Len(users) + 1]

(* POST /auth/auto_register *)
auto_register_user(d) ==
    LET base == [NoResp EXCEPT !.op = "auto_register", !.key = <<d>>,
                    !.repeat = (resp.op = "auto_register" /\ resp.key = <<d>>)]
        found == get_by_device_id(users, d)
    IN  /\ UNCHANGED <<codes, procs, notifications, notification_settings>>
        /\ IF d = None
           THEN /\ resp' = [base EXCEPT !.status = 400, !.detail = "no_device_id"]
                /\ UNCHANGED <<users, clock>>
           ELSE IF found # NoUser
           THEN IF TokenEnvelopeStatus # 200
                THEN /\ resp' = [base EXCEPT !.status = 500, !.detail = "existing"]
                     /\ UNCHANGED <<users, clock>>
                ELSE /\ users' = update_last_login(users, found, clock)
                     /\ resp' = [base EXCEPT !.status = 200, !.detail = "existing",
                                             !.uid = found]
                     /\ UNCHANGED clock
           ELSE \E g \in generate_unique_username(users) :
                IF ~HasAttr("dict")
                THEN /\ resp' = [base EXCEPT !.status = 500,
                                             !.detail = "create_failed"]
                     /\ UNCHANGED <<users, clock>>
                ELSE LET row == create_user(g, None, "random", clock)
                     IN IF ~ConstraintsOk(users, row)
                        THEN /\ resp' = [base EXCEPT !.status = 500,
                                                     !.detail = "create_failed",
                                                     !.username = g]
                             /\ UNCHANGED <<users, clock>>
                        ELSE /\ Len(users) < MaxUsers
                             /\ \E t2 \in Later(clock) :
                                  /\ users' = set_trial_period(Append(users, row),
                                         Len(users) + 1, TRIAL_PERIOD_DAYS, t2)
                                  /\ clock' = t2
                             /\ resp' = [base EXCEPT !.status = 500,
                                             !.detail = "created", !.created = TRUE,
                                             !.uid = Len(users) + 1, !.username = g]

(* what get_google_user_info / get_apple_user_info return for a valid token *)
OAuthInfos(p) ==
    [provider : {p}, provider_id : Subjects, email : Emails \cup {None},
     email_verified : {TRUE}]

(* an ID token that does not validate: the getters return None *)
NoInfo == [provider |-> None, provider_id |-> None, email |-> None,
           email_verified |-> FALSE]

(* the body shared by google_oauth_login and apple_oauth_login; every        *)
(* exception raised inside it, the 400 included, is re-raised as a 500       *)
oauth_login(op, info) ==
    LET rep == resp.op \in {"google_login", "apple_login"} /\ resp.uid # NoUser
               /\ resp.key = <<info.provider, info.provider_id>>
        base == [NoResp EXCEPT !.op = op, !.status = 500,
                    !.key = <<info.provider, info.provider_id>>, !.repeat = rep]
        existing == get_by_oauth_provider(users, info.provider, info.provider_id)
        email_user == get_by_email(users, info.email)
    IN  /\ UNCHANGED <<codes, clock, procs, notifications, notification_settings>>
        /\ IF info = NoInfo
           THEN /\ resp' = [base EXCEPT !.detail = "invalid_token", !.key = <<>>,
                                        !.repeat = FALSE]
                /\ UNCHANGED users
           ELSE IF existing # {}
           THEN \E id \in existing :
                /\ users' = update_last_login(users, id, clock)
                /\ resp' = [base EXCEPT !.detail = "existing", !.uid = id,
                                        !.status = TokenEnvelopeStatus]
           ELSE IF email_user # NoUser
           THEN /\ users' = link_oauth_account(users, email_user, info, clock)
                /\ resp' = [base EXCEPT !.detail = "linked", !.uid = email_user,
                                        !.status = TokenEnvelopeStatus]
           ELSE \E g \in generate_unique_username(users) :
                LET row == create_oauth_user(g, info, clock)
                IN IF ~ConstraintsOk(users, row)
                   THEN /\ resp' = [base EXCEPT !.detail = "create_failed"]
                        /\ UNCHANGED users
                   ELSE /\ Len(users) < MaxUsers
                        /\ users' = Append(users, row)
                        /\ resp' = [base EXCEPT !.detail = "created",
                                        !.created = TRUE, !.is_new_user = TRUE,
                                        !.uid = Len(users) + 1,
                                        !.status = TokenEnvelopeStatus]

(* POST /oauth/google/login *)
google_oauth_login(info) == oauth_login("google_login", info)

(* POST /oauth/apple/login; user_ok: the optional user blob, when it has a   *)
(* 'name', holds a mapping there                                             *)
apple_oauth_login(info, user_ok) ==
    IF info # NoInfo /\ ~user_ok
    THEN /\ resp' = [NoResp EXCEPT !.op = "apple_login", !.status = 500,
                                   !.detail = "bad_user_blob"]
         /\ UNCHANGED <<users, codes, clock, procs, notifications, notification_settings>>
    ELSE oauth_login("apple_login", info)

Next ==
    \/ Tick
    \/ \E e \in Emails : send_verification_code(e)
    \/ \E u \in Usernames, e \in Emails, pw \in Passwords, c \in Codes :
          register_user(u, e, pw, c)
    \/ \E d \in DeviceIds \cup {None} : auto_register_user(d)
    \/ \E info \in OAuthInfos("google") \cup {NoInfo} : google_oauth_login(info)
    \/ \E info \in OAuthInfos("apple") \cup {NoInfo}, user_ok \in BOOLEAN :
          apple_oauth_login(info, user_ok)

Spec == Init /\ [][Next]_vars

----------------------------------------------------------------------------
(* Concurrent requests: each handler runs statement by statement, a query   *)
(* or a commit per step, and the steps of different requests interleave.     *)

Procs == {"w1", "w2"}

Idle == [pc |-> "idle", u |-> None, e |-> None, c |-> None, key |-> <<>>,
         uid |-> NoUser, retried |-> FALSE]

InitConc ==
    /\ users = <<>>
    /\ codes = [e \in Emails |-> NoCode]
    /\ clock = 0
    /\ resp = NoResp
    /\ procs = [p \in Procs |-> Idle]
    /\ notifications = <<>>
    /\ notification_settings = <<>>

At(p, pc) == procs[p].pc = pc
Goto(p, pc) == procs' = [procs EXCEPT ![p].pc = pc]

(* the response is sent, whatever it is, and the worker is free again *)
Finish(p, outcome) == procs' = [procs EXCEPT ![p] = Idle]

(* register_user, auth.py lines 22, 28, 34, 41, 44, 47; the request arrives  *)
(* and verify_code runs                                                      *)
reg_verify(p, u, e, c) ==
    /\ At(p, "idle")
    /\ codes' = verify_code_store(codes, e, c, clock)
    /\ IF verify_code(codes, e, c, clock)
       THEN procs' = [procs EXCEPT ![p] = [Idle EXCEPT !.pc = "reg_email",
                                               !.u = u, !.e = e]]
       ELSE Finish(p, "rejected")
    /\ UNCHANGED <<users, clock, resp, notifications, notification_settings>>

reg_check_email(p) ==
    /\ At(p, "reg_email")
    /\ IF get_by_email(users, procs[p].e) # NoUser
       THEN Finish(p, "rejected") ELSE Goto(p, "reg_username")
    /\ UNCHANGED <<users, codes, clock, resp, notifications, notification_settings>>

reg_check_username(p) ==
    /\ At(p, "reg_username")
    /\ IF get_by_username(users, procs[p].u) # NoUser
       THEN Finish(p, "rejected") ELSE Goto(p, "reg_create")
    /\ UNCHANGED <<users, codes, clock, resp, notifications, notification_settings>>

reg_create(p) ==
    LET row == create_user(procs[p].u, procs[p].e, "pw1", clock)
    IN  /\ At(p, "reg_create")
        /\ IF ConstraintsOk(users, row)
           THEN /\ Len(users) < MaxUsers
                /\ users' = Append(users, row)
                /\ procs' = [procs EXCEPT ![p] = [Idle EXCEPT !.pc = "reg_trial",
                                                      !.uid = Len(users) + 1]]
           ELSE /\ Finish(p, "integrity_error")
                /\ UNCHANGED users
        /\ UNCHANGED <<codes, clock, resp, notifications, notification_settings>>

reg_trial(p) ==
    /\ At(p, "reg_trial")
    /\ users' = set_trial_period(users, procs[p].uid, TRIAL_PERIOD_DAYS, clock)
    /\ Finish(p, IF TokenEnvelopeStatus = 200 THEN "answered" ELSE "server_error")
    /\ UNCHANGED <<codes, clock, resp, notifications, notification_settings>>

(* google_oauth_login / apple_oauth_login, oauth.py lines 37, 48, 51, 55, 58; *)
(* the request arrives and the lookup by provider and subject runs            *)
oa_provider(p, info) ==
    LET existing == get_by_oauth_provider(users, info.provider, info.provider_id)
    IN  /\ At(p, "idle")
        /\ IF existing # {}
           THEN \E id \in existing :
                  /\ users' = update_last_login(users, id, clock)
                  /\ Finish(p, "server_error")
           ELSE /\ procs' = [procs EXCEPT ![p] = [Idle EXCEPT !.pc = "oa_email",
                                !.e = info.email,
                                !.key = <<info.provider, info.provider_id>>]]
                /\ UNCHANGED users
        /\ UNCHANGED <<codes, clock, resp, notifications, notification_settings>>

oa_email(p) ==
    LET email_user == get_by_email(users, procs[p].e)
    IN  /\ At(p, "oa_email")
        /\ procs' = [procs EXCEPT
                        ![p].pc = IF email_user # NoUser THEN "oa_link"
                                  ELSE "oa_generate",
                        ![p].uid = email_user]
        /\ UNCHANGED <<users, codes, clock, resp, notifications, notification_settings>>

oa_link(p) ==
    /\ At(p, "oa_link")
    /\ users' = link_oauth_account(users, procs[p].uid,
                    [provider |-> procs[p].key[1], provider_id |-> procs[p].key[2],
                     email |-> procs[p].e, email_verified |-> TRUE], clock)
    /\ Finish(p, "server_error")
    /\ UNCHANGED <<codes, clock, resp, notifications, notification_settings>>

oa_generate(p) ==
    /\ At(p, "oa_generate")
    /\ \E g \in generate_unique_username(users) :
          procs' = [procs EXCEPT ![p].pc = "oa_create", ![p].u = g]
    /\ UNCHANGED <<users, codes, clock, resp, notifications, notification_settings>>

oa_create(p) ==
    LET row == create_oauth_user(procs[p].u,
                    [provider |-> procs[p].key[1], provider_id |-> procs[p].key[2],
                     email |-> procs[p].e, email_verified |-> TRUE], clock)
    IN  /\ At(p, "oa_create")
        /\ IF ConstraintsOk(users, row)
           THEN /\ Len(users) < MaxUsers
                /\ users' = Append(users, row)
                /\ Finish(p, "server_error")
           ELSE /\ Finish(p, "integrity_error")
                /\ UNCHANGED users
        /\ UNCHANGED <<codes, clock, resp, notifications, notification_settings>>

(* update_user_profile, users.py lines 35-46 and 62, behind get_current_user: *)
(* the request arrives with a token for account id                            *)
pu_current_user(p, id, u) ==
    /\ At(p, "idle")
    /\ IF id \in Ids(users) /\ users[id].status = "active"
       THEN procs' = [procs EXCEPT ![p] = [Idle EXCEPT !.pc = "pu_username",
                                               !.uid = id, !.u = u]]
       ELSE Finish(p, "rejected")
    /\ UNCHANGED <<users, codes, clock, resp, notifications, notification_settings>>

(* the new username is set on the session object only; user_update.phone    *)
(* raises before the commit                                                  *)
pu_check_username(p) ==
    /\ At(p, "pu_username")
    /\ IF /\ procs[p].u # users[procs[p].uid].username
          /\ \E i \in Ids(users) : /\ users[i].username = procs[p].u
                                   /\ i # procs[p].uid
       THEN Finish(p, "rejected") ELSE Finish(p, "server_error")
    /\ UNCHANGED <<users, codes, clock, resp, notifications, notification_settings>>

(* auto_register_user, auth.py lines 122, 137, 149 *)
ar_lookup(p, d) ==
    /\ At(p, "idle")
    /\ IF get_by_device_id(users, d) # NoUser
       THEN Finish(p, "server_error") ELSE Goto(p, "ar_generate")
    /\ UNCHANGED <<users, codes, clock, resp, notifications, notification_settings>>

ar_generate(p) ==
    /\ At(p, "ar_generate")
    /\ \E g \in generate_unique_username(users) :
          procs' = [procs EXCEPT ![p].pc = "ar_create", ![p].u = g]
    /\ UNCHANGED <<users, codes, clock, resp, notifications, notification_settings>>

ar_create(p) ==
    /\ At(p, "ar_create")
    /\ ~HasAttr("dict")
    /\ Finish(p, "server_error")
    /\ UNCHANGED <<users, codes, clock, resp, notifications, notification_settings>>

(* send_verification_code, auth.py lines 168-175 *)
issue_code(e) ==
    /\ get_by_email(users, e) = NoUser
    /\ \E c \in Codes : codes' = store_verification_code(codes, e, c, clock)
    /\ UNCHANGED <<users, clock, resp, procs, notifications, notification_settings>>

NextConc ==
    \/ \E e \in Emails : issue_code(e)
    \/ \E p \in Procs :
          \/ \E u \in Usernames, e \in Emails, c \in Codes : reg_verify(p, u, e, c)
          \/ reg_check_email(p) \/ reg_check_username(p)
          \/ reg_create(p) \/ reg_trial(p)
          \/ \E pr \in Providers : \E info \in OAuthInfos(pr) : oa_provider(p, info)
          \/ oa_email(p) \/ oa_link(p) \/ oa_generate(p) \/ oa_create(p)
          \/ \E id \in 1..MaxUsers, u \in Usernames : pu_current_user(p, id, u)
          \/ pu_check_username(p)
          \/ \E d \in DeviceIds : ar_lookup(p, d)
          \/ ar_generate(p) \/ ar_create(p)

SpecConc == InitConc /\ [][NextConc]_vars

----------------------------------------------------------------------------
(* Sessions: login, bearer tokens, entitlement and account deletion, over a  *)
(* users table as registration, OAuth login and the billing side leave it   *)

UserTypes == {"trial", "monthly", "yearly", "lifetime"}
UserStatuses == {"active", "inactive", "suspended", "expired"}
EndDates == {NoTime, 100}
Identifiers == {"alice", "e1", "e2", "nobody"}
LoginPasswords == {"pw1", "pw2"}
TokenExpiries == {50, 1000}

(* settings.SECRET_KEY: a signing key, not the output of get_password_hash *)
SECRET_KEY == <<"key", "your-secret-key-here">>

(* app.core.security *)
verify_password(plain, hashed) ==
    /\ hashed # None
    /\ hashed = get_password_hash(plain)

create_access_token(uid, exp) ==
    [typ |-> "access", sub |-> uid, exp |-> exp, signed |-> TRUE]

create_refresh_token(uid, exp) ==
    [typ |-> "refresh", sub |-> uid, exp |-> exp, signed |-> TRUE]

(* the subject of a signed, unexpired token, else the invalid sentinel *)
verify_token(token, t) ==
    IF token.signed /\ t <= token.exp THEN token.sub ELSE NoUser

(* tokens a client can present: signed by the codec or not, for an account   *)
(* id that may or may not exist, expiring early or late                      *)
BearerTokens ==
    [typ : {"access"}, sub : 1..(MaxUsers + 1), exp : TokenExpiries,
     signed : BOOLEAN]

RefreshTokens ==
    [typ : {"refresh"}, sub : 1..MaxUsers, exp : TokenExpiries, signed : {TRUE}]

(* the password is not checked *)
authenticate_any_password(us, ident, pw) ==
    LET matches == {i \in Ids(us) : us[i].username = ident \/ us[i].email = ident}
    IN  IF matches = {} THEN {NoUser} ELSE matches

(* CRUDUser.authenticate: .first() takes one of the rows whose username or   *)
(* email equals the identifier; the results it can give                      *)
authenticate(us, ident, pw) ==
    LET matches == {i \in Ids(us) : us[i].username = ident \/ us[i].email = ident}
    IN  IF matches = {} THEN {NoUser}
        ELSE {IF verify_password(pw, us[i].hashed_password) THEN i ELSE NoUser :
                 i \in matches}

(* User.is_trial_expired at time t *)
is_trial_expired(user, t) ==
    IF user.user_type # "trial" THEN FALSE
    ELSE IF user.trial_end_date = NoTime THEN FALSE
    ELSE t > user.trial_end_date

(* a lifetime account is judged by its subscription_end_date *)
is_subscription_active_lifetime_by_date(user, t) ==
    IF user.user_type = "trial" THEN ~is_trial_expired(user, t)
    ELSE IF user.subscription_end_date = NoTime THEN FALSE
    ELSE t <= user.subscription_end_date

(* User.is_subscription_active at time t *)
is_subscription_active(user, t) ==
    IF user.user_type = "trial" THEN ~is_trial_expired(user, t)
    ELSE IF user.user_type = "lifetime" THEN TRUE
    ELSE IF user.subscription_end_date = NoTime THEN FALSE
    ELSE t <= user.subscription_end_date

Rejected(status, detail) == [status |-> status, detail |-> detail, uid |-> NoUser]

(* the stored status is tested before the token *)
get_current_user_status_first(us, token, t) ==
    IF token.sub \in Ids(us) /\ us[token.sub].status # "active"
    THEN Rejected(403, "not_active")
    ELSE IF verify_token(token, t) = NoUser THEN Rejected(401, "invalid_token")
    ELSE IF verify_token(token, t) \notin Ids(us) THEN Rejected(401, "no_user")
    ELSE [status |-> 200, detail |-> "ok", uid |-> verify_token(token, t)]

(* deps.get_current_user: the account of the bearer token, or the rejection *)
get_current_user(us, token, t) ==
    LET user_id == verify_token(token, t)
    IN  IF user_id = NoUser THEN Rejected(401, "invalid_token")
        ELSE IF user_id \notin Ids(us) THEN Rejected(401, "no_user")
        ELSE IF us[user_id].status # "active" THEN Rejected(403, "not_active")
        ELSE [status |-> 200, detail |-> "ok", uid |-> user_id]

(* deps.get_current_active_user *)
get_current_active_user(us, token, t) ==
    LET current_user == get_current_user(us, token, t)
    IN  IF current_user.status # 200 THEN current_user
        ELSE IF ~is_subscription_active(us[current_user.uid], t)
        THEN Rejected(403, "subscription_expired")
        ELSE current_user

(* a mapping has .get; the boolean that verify_password returns has not *)
IsMapping(payload) == payload \notin BOOLEAN

(* CRUDUser.verify_refresh_token: every exception gives None *)
verify_refresh_token(token) ==
    LET payload == verify_password(token, SECRET_KEY)
    IN  IF IsMapping(payload) THEN payload.sub ELSE NoUser

(* the users table at commit of an UPDATE of row id *)
UpdateOk(us, id, row) ==
    /\ row.username # None
    /\ row.email # None
    /\ \A i \in Ids(us) \ {id} : us[i].username # row.username
    /\ \A i \in Ids(us) \ {id} : us[i].email # row.email

(* accounts as the handlers and the billing side leave them *)
PasswordAccounts ==
    {[NewRow("alice", "e1", get_password_hash("pw1"), 0) EXCEPT
         !.user_type = ty, !.status = st, !.trial_end_date = te,
         !.subscription_end_date = se] :
       ty \in UserTypes, st \in UserStatuses, te \in EndDates, se \in EndDates}

(* a second account: its username may be the text of another's email *)
SecondAccounts ==
    {[NewRow(u, "e2", h, 0) EXCEPT !.oauth_provider = IF h = None THEN "google" ELSE None,
                                   !.oauth_provider_id = IF h = None THEN "s1" ELSE None] :
       u \in {"user_a", "e1"}, h \in {None, get_password_hash("pw2")}}

InitAccess ==
    /\ users \in {<<a>> : a \in PasswordAccounts}
                 \cup {<<a, b>> : a \in PasswordAccounts, b \in SecondAccounts}
    /\ codes = [e \in Emails |-> NoCode]
    /\ clock = 0
    /\ resp = NoResp
    /\ procs = <<>>
    /\ notifications = <<>>
    /\ notification_settings = <<>>

Answer(op, cu, key) ==
    [NoResp EXCEPT !.op = op, !.status = cu.status, !.detail = cu.detail,
                   !.uid = cu.uid, !.key = key]

(* POST /auth/login: the expiry settings are read before update_last_login *)
login_for_access_token(ident, pw) ==
    /\ \E user \in authenticate(users, ident, pw) :
         IF user = NoUser
         THEN /\ resp' = [NoResp EXCEPT !.op = "login", !.status = 401,
                             !.detail = "bad_credentials", !.key = <<ident, pw>>]
              /\ UNCHANGED users
         ELSE IF TokenEnvelopeStatus # 200
         THEN /\ resp' = [NoResp EXCEPT !.op = "login", !.status = 500,
                             !.detail = "authenticated", !.uid = user,
                             !.key = <<ident, pw>>]
              /\ UNCHANGED users
         ELSE /\ users' = update_last_login(users, user, clock)
              /\ resp' = [NoResp EXCEPT !.op = "login", !.status = 200,
                             !.detail = "authenticated", !.uid = user,
                             !.key = <<ident, pw>>]
    /\ UNCHANGED <<codes, clock, procs, notifications, notification_settings>>

(* GET /users/profile, an endpoint behind get_current_user *)
get_user_profile(token) ==
    /\ resp' = Answer("profile", get_current_user(users, token, clock), <<token>>)
    /\ UNCHANGED <<users, codes, clock, procs, notifications, notification_settings>>

(* an endpoint behind get_current_active_user *)
gated_request(token) ==
    /\ resp' = Answer("gated", get_current_active_user(users, token, clock),
                      <<token>>)
    /\ UNCHANGED <<users, codes, clock, procs, notifications, notification_settings>>

(* GET /users/subscription-status *)
get_subscription_status(token) ==
    LET cu == get_current_user(users, token, clock)
    IN  /\ resp' = [Answer("subscription_status", cu, <<token>>) EXCEPT
                       !.body = IF cu.status # 200 THEN <<>>
                                ELSE <<is_trial_expired(users[cu.uid], clock),
                                       is_subscription_active(users[cu.uid], clock)>>]
        /\ UNCHANGED <<users, codes, clock, procs, notifications,
                       notification_settings>>

(* POST /auth/refresh_token *)
refresh_access_token(token) ==
    LET user_id == verify_refresh_token(token)
        base == [NoResp EXCEPT !.op = "refresh", !.key = <<token>>]
    IN  /\ resp' = IF user_id = NoUser
                   THEN [base EXCEPT !.status = 401, !.detail = "invalid_refresh"]
                   ELSE IF user_id \notin Ids(users)
                   THEN [base EXCEPT !.status = 404, !.detail = "no_user"]
                   ELSE [base EXCEPT !.status = TokenEnvelopeStatus,
                                     !.detail = "refreshed", !.uid = user_id]
        /\ UNCHANGED <<users, codes, clock, procs, notifications,
                       notification_settings>>

(* DELETE /users/account: the commit writes status and a NULL email *)
delete_account(token) ==
    LET cu == get_current_user(users, token, clock)
        row == [users[cu.uid] EXCEPT !.status = "inactive", !.email = None]
    IN  /\ IF cu.status # 200
           THEN /\ resp' = Answer("delete_account", cu, <<token>>)
                /\ UNCHANGED users
           ELSE IF ~UpdateOk(users, cu.uid, row)
           THEN /\ resp' = [Answer("delete_account", cu, <<token>>) EXCEPT
                               !.status = 500, !.detail = "integrity_error"]
                /\ UNCHANGED users
           ELSE /\ users' = [users EXCEPT ![cu.uid] = row]
                /\ resp' = [Answer("delete_account", cu, <<token>>) EXCEPT
                               !.detail = "deleted"]
        /\ UNCHANGED <<codes, clock, procs, notifications, notification_settings>>

NextAccess ==
    \/ Tick
    \/ \E ident \in Identifiers, pw \in LoginPasswords :
          login_for_access_token(ident, pw)
    \/ \E token \in BearerTokens : get_user_profile(token)
    \/ \E token \in BearerTokens : gated_request(token)
    \/ \E token \in BearerTokens : get_subscription_status(token)
    \/ \E token \in RefreshTokens : refresh_access_token(token)
    \/ \E token \in BearerTokens : delete_account(token)

SpecAccess == InitAccess /\ [][NextAccess]_vars

----------------------------------------------------------------------------
(* The notification inbox: app/api/v1/endpoints/notifications.py and        *)
(* CRUDNotification, over two active accounts                                *)

NotificationIds == {1, 2}

(* the members of NotificationStatus: member name and value *)
StatusNames == {"UNREAD", "READ", "ARCHIVED"}
EnumValue == [UNREAD |-> "unread", READ |-> "read", ARCHIVED |-> "archived"]

(* app.models.notification.NotificationStatus is a plain Enum, and          *)
(* app.schemas.notification.NotificationStatus a str Enum of its own         *)
ModelStatus(name) == [cls |-> "models", name |-> name, value |-> EnumValue[name]]
SchemaStatus(name) == [cls |-> "schemas", name |-> name, value |-> EnumValue[name]]
SchemaStatuses == {SchemaStatus(n) : n \in StatusNames}

(* Column(Enum(NotificationStatus)) on the way in: a member of the column's  *)
(* enum is stored by its name; any other str instance is stored as it is     *)
db_value_for_elem(elem) ==
    IF elem.cls = "models" THEN elem.name ELSE elem.value

(* and on the way out: a stored text that is no member name raises           *)
(* LookupError when the row is loaded                                        *)
Loadable(row) == row.status \in StatusNames

(* the primary key SQLite gives the next row *)
NextNotificationId(ns) ==
    IF Len(ns) = 0 THEN 1
    ELSE (CHOOSE m \in {ns[k].id : k \in 1..Len(ns)} :
             \A k \in 1..Len(ns) : ns[k].id <= m) + 1

(* the positions of the rows with this id and owner: what the query of      *)
(* mark_as_read and of delete selects                                        *)
owned_rows(ns, notification_id, user_id) ==
    {k \in 1..Len(ns) : ns[k].id = notification_id /\ ns[k].user_id = user_id}

(* CRUDNotification.get_unread_count *)
get_unread_count(ns, user_id) ==
    Cardinality({k \in 1..Len(ns) :
                    /\ ns[k].user_id = user_id
                    /\ ns[k].status = db_value_for_elem(ModelStatus("UNREAD"))})

(* CRUDNotification.mark_as_read, once the row at position k is loaded *)
mark_as_read(ns, k, t) ==
    [ns EXCEPT ![k] = [@ EXCEPT
        !.status = db_value_for_elem(ModelStatus("READ")), !.read_at = t]]

(* CRUDNotification.mark_all_as_read: the positions its UPDATE matches *)
mark_all_as_read_rows(ns, user_id) ==
    {k \in 1..Len(ns) :
        /\ ns[k].user_id = user_id
        /\ ns[k].status = db_value_for_elem(ModelStatus("UNREAD"))}

mark_all_as_read(ns, user_id, t) ==
    [k \in 1..Len(ns) |->
        IF k \in mark_all_as_read_rows(ns, user_id)
        THEN [ns[k] EXCEPT !.status = db_value_for_elem(ModelStatus("READ")),
                           !.read_at = t]
        ELSE ns[k]]

(* the owner is not part of the filter *)
batch_update_status_rows_any_owner(ns, notification_ids, user_id) ==
    {k \in 1..Len(ns) : ns[k].id \in notification_ids}

(* CRUDNotification.batch_update_status: the positions its UPDATE matches *)
batch_update_status_rows(ns, notification_ids, user_id) ==
    {k \in 1..Len(ns) :
        ns[k].id \in notification_ids /\ ns[k].user_id = user_id}

batch_update_status(ns, notification_ids, user_id, status) ==
    [k \in 1..Len(ns) |->
        IF k \in batch_update_status_rows(ns, notification_ids, user_id)
        THEN [ns[k] EXCEPT !.status = db_value_for_elem(status)]
        ELSE ns[k]]

(* the bearer tokens of the two accounts, and one that does not verify *)
InboxTokens ==
    {create_access_token(1, 1000), create_access_token(2, 1000),
     [create_access_token(1, 1000) EXCEPT !.signed = FALSE]}

InitInbox ==
    /\ users = <<NewRow("alice", "e1", get_password_hash("pw1"), 0),
                 NewRow("user_a", "e2", get_password_hash("pw1"), 0)>>
    /\ codes = [e \in Emails |-> NoCode]
    /\ clock = 0
    /\ resp = NoResp
    /\ procs = <<>>
    /\ notifications = <<>>
    /\ notification_settings = <<>>

(* a rule evaluation or system event inserts a notification for an account; *)
(* status takes the column default                                           *)
notification_event(user_id) ==
    /\ NextNotificationId(notifications) \in NotificationIds
    /\ notifications' = Append(notifications,
          [id |-> NextNotificationId(notifications), user_id |-> user_id,
           status |-> db_value_for_elem(ModelStatus("UNREAD")),
           read_at |-> NoTime])
    /\ UNCHANGED <<users, codes, clock, resp, procs, notification_settings>>

(* PUT /notifications/{notification_id}/read *)
mark_notification_as_read(token, notification_id) ==
    LET cu == get_current_user(users, token, clock)
        base == [Answer("mark_as_read", cu, <<notification_id>>) EXCEPT
                    !.repeat = \E k \in owned_rows(notifications, notification_id, cu.uid) :
                                  notifications[k].status = "READ"]
    IN  /\ UNCHANGED <<users, codes, clock, procs, notification_settings>>
        /\ IF cu.status # 200
           THEN /\ resp' = Answer("mark_as_read", cu, <<notification_id>>)
                /\ UNCHANGED notifications
           ELSE IF owned_rows(notifications, notification_id, cu.uid) = {}
           THEN /\ resp' = [base EXCEPT !.status = 404, !.detail = "not_found"]
                /\ UNCHANGED notifications
           ELSE \E k \in owned_rows(notifications, notification_id, cu.uid) :
                IF ~Loadable(notifications[k])
                THEN /\ resp' = [base EXCEPT !.status = 500,
                                             !.detail = "lookup_error"]
                     /\ UNCHANGED notifications
                ELSE /\ notifications' = mark_as_read(notifications, k, clock)
                     /\ resp' = [base EXCEPT !.detail = "read"]

(* PUT /notifications/read-all *)
mark_all_notifications_as_read(token) ==
    LET cu == get_current_user(users, token, clock)
    IN  /\ UNCHANGED <<users, codes, clock, procs, notification_settings>>
        /\ IF cu.status # 200
           THEN /\ resp' = Answer("read_all", cu, <<>>)
                /\ UNCHANGED notifications
           ELSE /\ notifications' = mark_all_as_read(notifications, cu.uid, clock)
                /\ resp' = [Answer("read_all", cu, <<>>) EXCEPT
                      !.body = <<Cardinality(
                                   mark_all_as_read_rows(notifications, cu.uid))>>]

(* PUT /notifications/batch-update: batch_update.status is a member of the  *)
(* schemas enum                                                              *)
batch_update_notifications(token, notification_ids, status) ==
    LET cu == get_current_user(users, token, clock)
    IN  /\ UNCHANGED <<users, codes, clock, procs, notification_settings>>
        /\ IF cu.status # 200
           THEN /\ resp' = Answer("batch_update", cu, <<notification_ids>>)
                /\ UNCHANGED notifications
           ELSE /\ notifications' = batch_update_status(notifications,
                                       notification_ids, cu.uid, status)
                /\ resp' = [Answer("batch_update", cu, <<notification_ids>>) EXCEPT
                      !.body = <<Cardinality(batch_update_status_rows(
                                   notifications, notification_ids, cu.uid))>>]

(* DELETE /notifications/{notification_id} *)
delete_notification(token, notification_id) ==
    LET cu == get_current_user(users, token, clock)
        Others(row) == ~(row.id = notification_id /\ row.user_id = cu.uid)
        base == Answer("delete", cu, <<notification_id>>)
    IN  /\ UNCHANGED <<users, codes, clock, procs, notification_settings>>
        /\ IF cu.status # 200
           THEN /\ resp' = base
                /\ UNCHANGED notifications
           ELSE IF owned_rows(notifications, notification_id, cu.uid) = {}
           THEN /\ resp' = [base EXCEPT !.status = 404, !.detail = "not_found"]
                /\ UNCHANGED notifications
           ELSE \E k \in owned_rows(notifications, notification_id, cu.uid) :
                IF ~Loadable(notifications[k])
                THEN /\ resp' = [base EXCEPT !.status = 500,
                                             !.detail = "lookup_error"]
                     /\ UNCHANGED notifications
                ELSE /\ notifications' = SelectSeq(notifications, Others)
                     /\ resp' = [base EXCEPT !.detail = "deleted"]

NextInbox ==
    \/ Tick
    \/ \E user_id \in 1..2 : notification_event(user_id)
    \/ \E token \in InboxTokens, id \in NotificationIds :
          mark_notification_as_read(token, id)
    \/ \E token \in InboxTokens : mark_all_notifications_as_read(token)
    \/ \E token \in InboxTokens, ids \in SUBSET NotificationIds,
          status \in SchemaStatuses :
          batch_update_notifications(token, ids, status)
    \/ \E token \in InboxTokens, id \in NotificationIds :
          delete_notification(token, id)

SpecInbox == InitInbox /\ [][NextInbox]_vars

----------------------------------------------------------------------------
(* Notification settings under concurrent requests: GET and PUT             *)
(* /notifications/settings, a query or a commit per step                     *)

(* the column defaults of notification_settings *)
DefaultSettings(user_id) ==
    [user_id |-> user_id,
     notifications_enabled |-> TRUE, twitter_notifications |-> TRUE,
     wallet_notifications |-> TRUE, blackrock_notifications |-> TRUE,
     system_notifications |-> TRUE, email_notifications |-> TRUE,
     browser_notifications |-> TRUE,
     quiet_hours_enabled |-> FALSE,
     quiet_hours_start |-> "22:00", quiet_hours_end |-> "08:00"]

(* the fields a PUT body sets: none, or one of two toggles *)
SettingsUpdates ==
    {<<>>} \cup {<<f, v>> : f \in {"notifications_enabled", "quiet_hours_enabled"},
                            v \in BOOLEAN}

(* the first step of get_or_create: the row of the account, if there is one *)
SettingsOf(rows, user_id) ==
    {k \in 1..Len(rows) : rows[k].user_id = user_id}

(* notification_settings.user_id is unique *)
SettingsInsertOk(rows, row) ==
    \A k \in 1..Len(rows) : rows[k].user_id # row.user_id

(* CRUDNotificationSettings.update: setattr for each field that was set *)
apply_update(row, upd) ==
    IF upd = <<>> THEN row
    ELSE IF upd[1] = "notifications_enabled"
    THEN [row EXCEPT !.notifications_enabled = upd[2]]
    ELSE [row EXCEPT !.quiet_hours_enabled = upd[2]]

InitSettings ==
    /\ users = <<NewRow("alice", "e1", get_password_hash("pw1"), 0),
                 NewRow("user_a", "e2", get_password_hash("pw1"), 0)>>
    /\ codes = [e \in Emails |-> NoCode]
    /\ clock = 0
    /\ resp = NoResp
    /\ procs = [p \in Procs |-> Idle]
    /\ notifications = <<>>
    /\ notification_settings = <<>>

(* the response of worker p goes out and the worker is free again *)
Respond(p, op, status, user_id) ==
    /\ resp' = [NoResp EXCEPT !.op = op, !.status = status, !.uid = user_id]
    /\ procs' = [procs EXCEPT ![p] = Idle]

(* get_notification_settings: the request arrives, get_current_user runs,   *)
(* and get_or_create looks the row up (crud_notification.py:251-253)         *)
gs_lookup(p, token) ==
    LET cu == get_current_user(users, token, clock)
    IN  /\ At(p, "idle")
        /\ IF cu.status # 200
           THEN Respond(p, "get_settings", cu.status, NoUser)
           ELSE IF SettingsOf(notification_settings, cu.uid) # {}
           THEN Respond(p, "get_settings", 200, cu.uid)
           ELSE /\ procs' = [procs EXCEPT ![p] = [Idle EXCEPT !.pc = "gs_insert",
                                                      !.uid = cu.uid]]
                /\ UNCHANGED resp
        /\ UNCHANGED <<users, codes, clock, notifications, notification_settings>>

(* get_or_create adds the row and commits (crud_notification.py:256-259) *)
gs_insert(p) ==
    LET row == DefaultSettings(procs[p].uid)
    IN  /\ At(p, "gs_insert")
        /\ IF SettingsInsertOk(notification_settings, row)
           THEN /\ notification_settings' = Append(notification_settings, row)
                /\ Respond(p, "get_settings", 200, procs[p].uid)
           ELSE /\ Respond(p, "get_settings", 500, procs[p].uid)
                /\ UNCHANGED notification_settings
        /\ UNCHANGED <<users, codes, clock, notifications>>

(* update_notification_settings: arrival, get_current_user and the lookup   *)
(* of get_or_create                                                          *)
us_lookup(p, token, upd) ==
    LET cu == get_current_user(users, token, clock)
    IN  /\ At(p, "idle")
        /\ IF cu.status # 200
           THEN Respond(p, "update_settings", cu.status, NoUser)
           ELSE /\ procs' = [procs EXCEPT ![p] = [Idle EXCEPT
                      !.pc = IF SettingsOf(notification_settings, cu.uid) # {}
                             THEN "us_write" ELSE "us_insert",
                      !.uid = cu.uid, !.key = upd]]
                /\ UNCHANGED resp
        /\ UNCHANGED <<users, codes, clock, notifications, notification_settings>>

us_insert(p) ==
    LET row == DefaultSettings(procs[p].uid)
    IN  /\ At(p, "us_insert")
        /\ IF SettingsInsertOk(notification_settings, row)
           THEN /\ notification_settings' = Append(notification_settings, row)
                /\ Goto(p, "us_write")
                /\ UNCHANGED resp
           ELSE /\ Respond(p, "update_settings", 500, procs[p].uid)
                /\ UNCHANGED notification_settings
        /\ UNCHANGED <<users, codes, clock, notifications>>

(* the fields are set on the row and committed (crud_notification.py:267-274) *)
us_write(p) ==
    /\ At(p, "us_write")
    /\ notification_settings' =
          [k \in 1..Len(notification_settings) |->
              IF notification_settings[k].user_id = procs[p].uid
              THEN apply_update(notification_settings[k], procs[p].key)
              ELSE notification_settings[k]]
    /\ Respond(p, "update_settings", 200, procs[p].uid)
    /\ UNCHANGED <<users, codes, clock, notifications>>

NextSettings ==
    \E p \in Procs :
       \/ \E token \in InboxTokens : gs_lookup(p, token)
       \/ gs_insert(p)
       \/ \E token \in InboxTokens, upd \in SettingsUpdates : us_lookup(p, token, upd)
       \/ us_insert(p)
       \/ us_write(p)

SpecSettings == InitSettings /\ [][NextSettings]_vars

----------------------------------------------------------------------------
(* Account self-service: profile update, password change and set, soft      *)
(* delete (app/api/v1/endpoints/users.py), next to the logins and to a trial *)
(* re-grant, over an account as registration and the billing side leave it  *)

(* the fields UserUpdate declares *)
UserUpdateFields == {"username", "email", "email_notifications",
                     "sms_notifications", "push_notifications"}

(* new passwords a client sends: one of seven characters and one of five *)
NewPasswords == {"secret2", "short"}

(* (user_type, max_follows, current_follows) of a trial account and of a     *)
(* paid one                                                                  *)
Quotas == {<<"trial", TRIAL_MAX_FOLLOWS, 2>>, <<"monthly", 999, 15>>}

(* User.can_add_follows *)
can_add_follows(user) == user.current_follows < user.max_follows

(* CRUDUser.generate_random_password: some text the client never sees *)
generate_random_password == "random-pw-12"

(* CRUDUser.create_auto_user: the row it builds *)
create_auto_user(username, device_id, t) ==
    [NewRow(username, None, get_password_hash(generate_random_password), t)
        EXCEPT !.device_id = device_id]

(* the checks of set_password on the account of the token *)
set_password_check(user, new_password) ==
    IF user.hashed_password # None THEN "has_password"
    ELSE IF Len(new_password) < 6 THEN "too_short"
    ELSE "ok"

(* the checks of change_password on the account of the token *)
change_password_check(user, old_password) ==
    IF user.hashed_password = None THEN "no_password"
    ELSE IF ~verify_password(old_password, user.hashed_password)
    THEN "wrong_old_password"
    ELSE "ok"

(* the bearer tokens of the accounts, and one that does not verify *)
AccountTokens ==
    {create_access_token(i, 1000) : i \in 1..MaxUsers}
       \cup {[create_access_token(1, 1000) EXCEPT !.signed = FALSE]}

AccountRows ==
    {[NewRow("alice", "e1", get_password_hash("pw1"), 0) EXCEPT
         !.status = st, !.user_type = q[1], !.max_follows = q[2],
         !.current_follows = q[3],
         !.subscription_end_date = IF q[1] = "trial" THEN NoTime ELSE 1000] :
       st \in {"active", "inactive", "suspended"}, q \in Quotas}

(* the account was registered at time 0, one tick ago *)
InitAccount ==
    /\ users \in {<<a>> : a \in AccountRows}
    /\ codes = [e \in Emails |-> NoCode]
    /\ clock = TickStep
    /\ resp = NoResp
    /\ procs = <<>>
    /\ notifications = <<>>
    /\ notification_settings = <<>>

(* PUT /users/profile: user_update.phone is read before the commit *)
update_user_profile(token, u, e) ==
    LET cu == get_current_user(users, token, clock)
        base == Answer("update_profile", cu, <<token, u, e>>)
        current_user == users[cu.uid]
        row == [current_user EXCEPT
                   !.username = IF u # None THEN u ELSE @,
                   !.email = IF e # None THEN e ELSE @]
    IN  /\ UNCHANGED <<codes, clock, procs, notifications, notification_settings>>
        /\ IF cu.status # 200
           THEN /\ resp' = base
                /\ UNCHANGED users
           ELSE IF /\ u # None /\ u # current_user.username
                   /\ \E i \in Ids(users) \ {cu.uid} : users[i].username = u
           THEN /\ resp' = [base EXCEPT !.status = 400, !.detail = "dup_username"]
                /\ UNCHANGED users
           ELSE IF /\ e # None /\ e # current_user.email
                   /\ \E i \in Ids(users) \ {cu.uid} : users[i].email = e
           THEN /\ resp' = [base EXCEPT !.status = 400, !.detail = "dup_email"]
                /\ UNCHANGED users
           ELSE IF "phone" \notin UserUpdateFields
           THEN /\ resp' = [base EXCEPT !.status = 500,
                                        !.detail = "attribute_error"]
                /\ UNCHANGED users
           ELSE IF ~UpdateOk(users, cu.uid, row)
           THEN /\ resp' = [base EXCEPT !.status = 500,
                                        !.detail = "integrity_error"]
                /\ UNCHANGED users
           ELSE /\ users' = [users EXCEPT ![cu.uid] = row]
                /\ resp' = [base EXCEPT !.detail = "updated"]

(* POST /users/change-password *)
change_password(token, old_password, new_password) ==
    LET cu == get_current_user(users, token, clock)
        base == Answer("change_password", cu, <<token, old_password, new_password>>)
    IN  /\ UNCHANGED <<codes, clock, procs, notifications, notification_settings>>
        /\ IF cu.status # 200
           THEN /\ resp' = base
                /\ UNCHANGED users
           ELSE IF change_password_check(users[cu.uid], old_password) # "ok"
           THEN /\ resp' = [base EXCEPT !.status = 400,
                      !.detail = change_password_check(users[cu.uid], old_password)]
                /\ UNCHANGED users
           ELSE /\ users' = [users EXCEPT ![cu.uid].hashed_password =
                                             get_password_hash(new_password)]
                /\ resp' = [base EXCEPT !.detail = "changed"]

(* POST /users/set-password *)
set_password(token, new_password) ==
    LET cu == get_current_user(users, token, clock)
        base == Answer("set_password", cu, <<token, new_password>>)
    IN  /\ UNCHANGED <<codes, clock, procs, notifications, notification_settings>>
        /\ IF cu.status # 200
           THEN /\ resp' = base
                /\ UNCHANGED users
           ELSE IF set_password_check(users[cu.uid], new_password) # "ok"
           THEN /\ resp' = [base EXCEPT !.status = 400,
                      !.detail = set_password_check(users[cu.uid], new_password)]
                /\ UNCHANGED users
           ELSE /\ users' = [users EXCEPT ![cu.uid].hashed_password =
                                             get_password_hash(new_password)]
                /\ resp' = [base EXCEPT !.detail = "set"]

(* a trial re-grant: CRUDUser.set_trial_period called for an account *)
regrant_trial(user_id) ==
    /\ users' = IF user_id \in Ids(users)
                THEN set_trial_period(users, user_id, TRIAL_PERIOD_DAYS, clock)
                ELSE users
    /\ resp' = [NoResp EXCEPT !.op = "set_trial_period", !.key = <<user_id>>,
                   !.status = IF user_id \in Ids(users) THEN 200 ELSE 404,
                   !.uid = IF user_id \in Ids(users) THEN user_id ELSE NoUser]
    /\ UNCHANGED <<codes, clock, procs, notifications, notification_settings>>

(* the inbox holds at most one notification here *)
NextAccount ==
    \/ \E ident \in Identifiers, pw \in LoginPasswords :
          login_for_access_token(ident, pw)
    \/ \E d \in DeviceIds \cup {None} : auto_register_user(d)
    \/ \E info \in OAuthInfos("google") \cup {NoInfo} : google_oauth_login(info)
    \/ \E token \in AccountTokens, u \in Usernames \cup {None},
          e \in Emails \cup {None} : update_user_profile(token, u, e)
    \/ \E token \in AccountTokens, old \in LoginPasswords :
          change_password(token, old, "secret2")
    \/ \E token \in AccountTokens, new \in NewPasswords : set_password(token, new)
    \/ \E token \in AccountTokens : delete_account(token)
    \/ \E user_id \in 1..MaxUsers : regrant_trial(user_id)
    \/ notifications = <<>> /\ notification_event(1)
    \/ \E token \in AccountTokens : mark_notification_as_read(token, 1)
    \/ \E token \in AccountTokens : mark_all_notifications_as_read(token)
    \/ \E token \in AccountTokens :
          batch_update_notifications(token, {1}, SchemaStatus("READ"))
    \/ \E token \in AccountTokens : delete_notification(token, 1)

SpecAccount == InitAccount /\ [][NextAccount]_vars

----------------------------------------------------------------------------
(* Login identifiers: registration followed by password login. A username   *)
(* is any text of 3 to 50 characters, the text of an email address included *)

RegisterUsernames == {"alice", "e1"}

NextIdentifiers ==
    \/ Tick
    \/ \E e \in Emails : send_verification_code(e)
    \/ \E u \in RegisterUsernames, e \in Emails, pw \in Passwords, c \in Codes :
          register_user(u, e, pw, c)
    \/ \E token \in AccountTokens, u \in RegisterUsernames :
          update_user_profile(token, u, None)
    \/ \E ident \in Identifiers, pw \in LoginPasswords :
          login_for_access_token(ident, pw)

SpecIdentifiers == Init /\ [][NextIdentifiers]_vars

----------------------------------------------------------------------------
(* Concurrent registrations with EmailService.verify_code taken command by  *)
(* command: the GET of the stored code and the DELETE of its key are two     *)
(* Redis commands, and commands of other requests can run between them       *)

(* register_user, auth.py line 22, and verify_code, email.py lines 58-69:    *)
(* the request arrives, the key is read and the code compared                *)
vc_get(p, u, e, c) ==
    /\ At(p, "idle")
    /\ IF verify_code(codes, e, c, clock)
       THEN /\ procs' = [procs EXCEPT ![p] = [Idle EXCEPT !.pc = "vc_delete",
                                                  !.u = u, !.e = e, !.c = c]]
            /\ UNCHANGED resp
       ELSE /\ Finish(p, "rejected")
            /\ resp' = [NoResp EXCEPT !.op = "verify_code", !.status = 400,
                                      !.email = e, !.code = c]
    /\ UNCHANGED <<users, codes, clock, notifications, notification_settings>>

(* verify_code, email.py lines 71-72: the key is deleted, whether or not it  *)
(* is still there, and the code is accepted                                  *)
vc_delete(p) ==
    /\ At(p, "vc_delete")
    /\ codes' = [codes EXCEPT ![procs[p].e] = NoCode]
    /\ procs' = [procs EXCEPT ![p].pc = "reg_email"]
    /\ resp' = [NoResp EXCEPT !.op = "verify_code", !.verified = TRUE,
                   !.email = procs[p].e, !.code = procs[p].c,
                   !.repeat = /\ resp.op = "verify_code" /\ resp.verified
                              /\ resp.email = procs[p].e
                              /\ resp.code = procs[p].c]
    /\ UNCHANGED <<users, clock, notifications, notification_settings>>

NextVerify ==
    \/ Tick
    \/ \E e \in Emails : send_verification_code(e)
    \/ \E p \in Procs :
          \/ \E u \in Usernames, e \in Emails, c \in Codes : vc_get(p, u, e, c)
          \/ vc_delete(p)
          \/ reg_check_email(p) \/ reg_check_username(p)
          \/ reg_create(p) \/ reg_trial(p)

SpecVerify == InitConc /\ [][NextVerify]_vars

----------------------------------------------------------------------------
(* Username synthesis: the retry loop of CRUDUser.generate_unique_username,  *)
(* one candidate and one lookup per round, inside concurrent OAuth logins    *)
(* that create accounts                                                      *)

(* the lookup is left out: the candidate is returned as drawn *)
gen_lookup_no_check(p) ==
    /\ At(p, "gen_lookup")
    /\ Goto(p, "oa_create")
    /\ UNCHANGED <<users, codes, clock, resp, notifications, notification_settings>>

(* crud_user.py line 123: the candidate is returned if no row holds it,      *)
(* else the loop goes round                                                  *)
gen_lookup(p) ==
    /\ At(p, "gen_lookup")
    /\ IF get_by_username(users, procs[p].u) = NoUser
       THEN Goto(p, "oa_create")
       ELSE procs' = [procs EXCEPT ![p].pc = "oa_generate", ![p].retried = TRUE]
    /\ UNCHANGED <<users, codes, clock, resp, notifications, notification_settings>>

(* crud_user.py line 122: random.choices draws candidate g *)
gen_draw(p, g) ==
    /\ At(p, "oa_generate")
    /\ procs' = [procs EXCEPT ![p].pc = "gen_lookup", ![p].u = g]
    /\ UNCHANGED <<users, codes, clock, resp, notifications, notification_settings>>

NextGen ==
    \E p \in Procs :
       \/ \E pr \in Providers : \E info \in OAuthInfos(pr) : oa_provider(p, info)
       \/ oa_email(p) \/ oa_link(p)
       \/ \E g \in GenNames : gen_draw(p, g)
       \/ gen_lookup(p)
       \/ oa_create(p)

SpecGen == InitConc /\ [][NextGen]_vars

(* every candidate has a positive probability in each draw, and a request    *)
(* that can take a step takes it                                             *)
FairGen ==
    \A p \in Procs :
       /\ WF_vars(gen_lookup(p))
       /\ \A g \in GenNames : SF_vars(gen_draw(p, g))

SpecGenFair == SpecGen /\ FairGen

----------------------------------------------------------------------------
(* Properties of device auto-registration *)

OAuthOps == {"google_login", "apple_login"}

HoldersOf(d) == {i \in Ids(users) : users[i].device_id = d}

(* C1: auto_register is idempotent per device_id: every call with a          *)
(* non-empty device_id answers with a token envelope for the one account     *)
(* that carries the device_id (hence the same id on every call), and no      *)
(* device_id is carried by more than one account.                            *)
C1_AutoRegisterIdempotent ==
    /\ \A d \in DeviceIds : Cardinality(HoldersOf(d)) <= 1
    /\ (resp.op = "auto_register" /\ resp.key # <<None>>) =>
          /\ resp.status = 200
          /\ HoldersOf(resp.key[1]) = {resp.uid}

(* C2: auto_register with a non-empty device_id no account holds succeeds:   *)
(* exactly one account is added, bound to the device_id, with a synthesized  *)
(* username, trial tier and a trial window, and a token envelope for it is   *)
(* returned.                                                                 *)
C2_AutoRegisterCreates ==
    [][\A d \in DeviceIds :
         (auto_register_user(d) /\ HoldersOf(d) = {}) =>
            /\ Len(users') = Len(users) + 1
            /\ \A i \in Ids(users) : users'[i] = users[i]
            /\ users'[Len(users')].device_id = d
            /\ users'[Len(users')].username \in GenNames
            /\ users'[Len(users')].user_type = "trial"
            /\ users'[Len(users')].trial_end_date # NoTime
            /\ resp'.status = 200
            /\ resp'.uid = Len(users')]_vars

----------------------------------------------------------------------------
(* Properties of password registration *)

(* C3: every password registration that creates an account returns it in a   *)
(* token envelope, with tier trial, max_follows = TRIAL_MAX_FOLLOWS and      *)
(* trial_end_date = created_at + TRIAL_PERIOD_DAYS.                          *)
C3_RegistrationTrial ==
    (resp.op = "register" /\ resp.created) =>
       /\ resp.status = 200
       /\ users[resp.uid].user_type = "trial"
       /\ users[resp.uid].max_follows = 5
       /\ users[resp.uid].trial_end_date =
             users[resp.uid].created_at + 3 * 86400

EmailBound(e) == \E i \in Ids(users) : users[i].email = e
UsernameBound(u) == \E i \in Ids(users) : users[i].username = u

(* a code was issued for e, equals c, and is at most 300 seconds old *)
CodeMatches(e, c) ==
    /\ codes[e].code # None
    /\ codes[e].code = c
    /\ clock - codes[e].created_at <= 300

(* C4: register_user fails and adds no row whenever the username or the      *)
(* email is already bound to an account, or the code does not match an       *)
(* issued, unexpired code for the email.                                     *)
C4_RegisterRejects ==
    [][\A u \in Usernames, e \in Emails, pw \in Passwords, c \in Codes :
         (register_user(u, e, pw, c)
            /\ (EmailBound(e) \/ UsernameBound(u) \/ ~CodeMatches(e, c))) =>
            /\ users' = users
            /\ resp'.status >= 400
            /\ ~resp'.created]_vars

C4_Witness ==
    /\ resp.op = "register" /\ resp.status = 400 /\ resp.verified
    /\ UsernameBound(resp.username)
    /\ ~EmailBound(resp.email)

(* C5 as stated: right after a registration created an account, a second     *)
(* registration with the same username and email is rejected with the        *)
(* duplicate-email conflict.                                                 *)
C5_DuplicateEmailFirst ==
    (resp.op = "register" /\ resp.repeat) => resp.detail = "dup_email"

(* C5 amended: right after a registration created an account, a second       *)
(* registration with the same username and email is rejected with 400 by the *)
(* verification-code check, the code having been consumed; a registration    *)
(* for a bound email that carries a valid code is rejected with the          *)
(* duplicate-email conflict, whether or not the username is bound too.       *)
C5_RepeatRejectedByCode ==
    /\ [](resp.op = "register" /\ resp.repeat =>
             resp.status = 400 /\ resp.detail = "bad_code")
    /\ [][\A u \in Usernames, e \in Emails, pw \in Passwords, c \in Codes :
            (register_user(u, e, pw, c) /\ EmailBound(e)) =>
               /\ users' = users
               /\ resp'.status = 400
               /\ resp'.detail =
                    IF CodeMatches(e, c) THEN "dup_email" ELSE "bad_code"]_vars

C5_Witness ==
    /\ resp.op = "register" /\ resp.repeat /\ resp.detail = "bad_code"
    /\ EmailBound(resp.email) /\ UsernameBound(resp.username)

----------------------------------------------------------------------------
(* Properties of OAuth resolution *)

(* a login request of provider pr whose ID token validates to info *)
OAuthStep(pr, info) ==
    IF pr = "google" THEN google_oauth_login(info)
    ELSE apple_oauth_login(info, TRUE)

PairHeld(pr, sub) ==
    \E i \in Ids(users) :
       users[i].oauth_provider = pr /\ users[i].oauth_provider_id = sub

SameIdentity(a, b) ==
    /\ a.username = b.username
    /\ a.email = b.email
    /\ a.hashed_password = b.hashed_password
    /\ a.device_id = b.device_id
    /\ a.oauth_provider = b.oauth_provider
    /\ a.oauth_provider_id = b.oauth_provider_id
    /\ a.oauth_email_verified = b.oauth_email_verified

C8_LinkByEmail ==
    [][\A pr \in Providers : \A info \in OAuthInfos(pr) :
         (/\ OAuthStep(pr, info)
          /\ ~PairHeld(pr, info.provider_id)
          /\ info.email # None
          /\ EmailBound(info.email)) =>
            /\ Len(users') = Len(users)
            /\ ~resp'.is_new_user
            /\ resp'.uid \in Ids(users)
            /\ users[resp'.uid].email = info.email
            /\ users'[resp'.uid].oauth_provider = pr
            /\ users'[resp'.uid].oauth_provider_id = info.provider_id
            /\ users'[resp'.uid].oauth_email_verified = info.email_verified
            /\ \A j \in Ids(users) : j # resp'.uid => users'[j] = users[j]]_vars

C8_Witness ==
    /\ resp.op \in OAuthOps /\ resp.detail = "linked" /\ ~resp.is_new_user
    /\ users[resp.uid].oauth_provider = resp.key[1]
    /\ users[resp.uid].hashed_password # None

(* C9: linking an OAuth identity to an existing account leaves the           *)
(* account's password hash, username, email and device id as they were, and  *)
(* leaves a provider and subject it already had as they were.                *)
C9_LinkNeverOverwrites ==
    [][\A pr \in Providers : \A info \in OAuthInfos(pr) :
         (/\ OAuthStep(pr, info)
          /\ ~PairHeld(pr, info.provider_id)
          /\ info.email # None
          /\ EmailBound(info.email)) =>
            \A i \in Ids(users) :
               /\ users'[i].hashed_password = users[i].hashed_password
               /\ users'[i].username = users[i].username
               /\ users'[i].email = users[i].email
               /\ users'[i].device_id = users[i].device_id
               /\ users[i].oauth_provider # None =>
                     /\ users'[i].oauth_provider = users[i].oauth_provider
                     /\ users'[i].oauth_provider_id = users[i].oauth_provider_id]_vars

----------------------------------------------------------------------------
(* Properties of the users table under concurrent requests *)

(* C10: no two accounts share a username, in every state reached by          *)
(* interleaved register, auto-register, OAuth and profile-update requests.   *)
C10_UniqueUsernames ==
    \A i, j \in Ids(users) : i # j => users[i].username # users[j].username

(* one registration has inserted its row while another, which found the     *)
(* same username free, has yet to insert                                     *)
C10_Witness ==
    \E p, q \in Procs :
       /\ p # q
       /\ procs[p].pc = "reg_create"
       /\ procs[q].pc = "reg_trial"
       /\ users[procs[q].uid].username = procs[p].u

----------------------------------------------------------------------------
(* Properties of login, entitlement and bearer-token access *)

HoldsIdentifier(i, ident) ==
    users[i].username = ident \/ users[i].email = ident

HashMatches(i, pw) ==
    /\ users[i].hashed_password # None
    /\ users[i].hashed_password = <<"hash", pw>>

(* C11: authenticate returns an account only when the identifier equals     *)
(* that account's username or email and the password verifies against that  *)
(* account's stored hash; for an identifier no account holds and for a      *)
(* password that verifies against no account holding the identifier it      *)
(* returns none, and login gives the same 401 answer in both cases.         *)
C11_AuthenticateSound ==
    [][\A ident \in Identifiers, pw \in LoginPasswords :
         (/\ resp'.op = "login"
          /\ resp'.key = <<ident, pw>>
          /\ login_for_access_token(ident, pw)) =>
            /\ resp'.uid # NoUser =>
                  /\ resp'.uid \in Ids(users)
                  /\ HoldsIdentifier(resp'.uid, ident)
                  /\ HashMatches(resp'.uid, pw)
            /\ (~\E i \in Ids(users) :
                    HoldsIdentifier(i, ident) /\ HashMatches(i, pw)) =>
                  /\ resp'.uid = NoUser
                  /\ resp'.status = 401
                  /\ resp'.detail = "bad_credentials"]_vars

(* a login by email was authenticated *)
C11_Witness ==
    /\ resp.op = "login" /\ resp.uid # NoUser
    /\ users[resp.uid].email = resp.key[1]
    /\ users[resp.uid].hashed_password = <<"hash", resp.key[2]>>

(* the entitlement of an account at time t, as the tiers define it *)
EntitledAt(user, t) ==
    CASE user.user_type = "trial" ->
            user.trial_end_date = NoTime \/ t <= user.trial_end_date
      [] user.user_type = "lifetime" -> TRUE
      [] OTHER ->
            user.subscription_end_date # NoTime /\ t <= user.subscription_end_date

(* C12: is_subscription_active is, for a trial account, true iff the trial   *)
(* is not expired (trial_end_date unset or now <= trial_end_date); for a     *)
(* lifetime account, true whatever the stored dates; for any other tier,     *)
(* true iff subscription_end_date is set and now <= subscription_end_date.   *)
C12_SubscriptionActive ==
    \A i \in Ids(users) :
       is_subscription_active(users[i], clock) = EntitledAt(users[i], clock)

(* a lifetime account without subscription_end_date is reported active *)
C12_Witness ==
    /\ resp.op = "subscription_status" /\ resp.status = 200
    /\ users[resp.uid].user_type = "lifetime"
    /\ users[resp.uid].subscription_end_date = NoTime
    /\ resp.body = <<FALSE, TRUE>>

(* the answer the access checks owe a request, in their order *)
AccessStatus(token, gated) ==
    IF ~token.signed \/ clock > token.exp \/ token.sub \notin Ids(users) THEN 401
    ELSE IF users[token.sub].status # "active" THEN 403
    ELSE IF gated /\ ~EntitledAt(users[token.sub], clock) THEN 403
    ELSE 200

(* C13: a request to an authenticated endpoint is rejected with 401 when     *)
(* the bearer token is invalid, expired or names no account; else with 403   *)
(* when the account's stored status is not active; else, behind the          *)
(* subscription gate, with 403 when is_subscription_active is false; and     *)
(* is let through otherwise.                                                 *)
C13_AccessChecks ==
    [][\A token \in BearerTokens :
         /\ (/\ resp'.op = "profile"
             /\ resp'.key = <<token>>
             /\ get_user_profile(token)) =>
               /\ resp'.status = AccessStatus(token, FALSE)
               /\ resp'.status = 200 => resp'.uid = token.sub
         /\ (/\ resp'.op = "gated"
             /\ resp'.key = <<token>>
             /\ gated_request(token)) =>
               /\ resp'.status = AccessStatus(token, TRUE)
               /\ resp'.status = 200 => resp'.uid = token.sub]_vars

(* the gate refused an account whose stored status is active *)
C13_Witness ==
    /\ resp.op = "gated" /\ resp.status = 403
    /\ resp.key[1].signed
    /\ resp.key[1].sub \in Ids(users)
    /\ users[resp.key[1].sub].status = "active"

(* C14: refresh_token, given a signed refresh token of an existing account   *)
(* that has not expired, answers 200 with a token envelope for that account. *)
C14_RefreshSucceeds ==
    (/\ resp.op = "refresh"
     /\ resp.key[1].signed
     /\ resp.key[1].exp > MaxTime
     /\ resp.key[1].sub \in Ids(users)) =>
        /\ resp.status = 200
        /\ resp.uid = resp.key[1].sub

(* C15: DELETE /users/account, for any authenticated account, succeeds,      *)
(* keeps the row, sets its status to inactive and clears its email.          *)
C15_SoftDelete ==
    (resp.op = "delete_account" /\ resp.status \notin {401, 403}) =>
        /\ resp.status = 200
        /\ resp.uid \in Ids(users)
        /\ users[resp.uid].status = "inactive"
        /\ users[resp.uid].email = None

----------------------------------------------------------------------------
(* Properties of the notification inbox *)

(* the status a stored row stands for: unread, read or archived *)
StatusOf(row) ==
    IF row.status \in {"UNREAD", "unread"} THEN "unread"
    ELSE IF row.status \in {"READ", "read"} THEN "read"
    ELSE "archived"

Owned(id, user_id) ==
    \E k \in 1..Len(notifications) :
       notifications[k].id = id /\ notifications[k].user_id = user_id

(* C16: mark_as_read(notification_id, user_id) answers not-found and        *)
(* changes nothing when the notification does not exist or belongs to       *)
(* another account; otherwise it succeeds and leaves the notification with  *)
(* status read and read_at set, also when it was read already.              *)
C16_MarkAsRead ==
    [][\A token \in InboxTokens, id \in NotificationIds :
         (/\ token.signed
          /\ resp'.op = "mark_as_read"
          /\ resp'.key = <<id>>
          /\ mark_notification_as_read(token, id)) =>
            IF ~Owned(id, token.sub)
            THEN /\ resp'.status = 404
                 /\ notifications' = notifications
            ELSE /\ resp'.status = 200
                 /\ \A k \in 1..Len(notifications') :
                       notifications'[k].id = id =>
                          /\ StatusOf(notifications'[k]) = "read"
                          /\ notifications'[k].read_at # NoTime]_vars

(* C17: batch_update_status(ids, user_id, status) changes only              *)
(* notifications whose id is in ids and whose owner is user_id, and of      *)
(* those only the status; it returns the number of such rows, and leaves    *)
(* every notification of another account as it was, listed or not.          *)
C17_BatchOnlyOwned ==
    [][\A token \in InboxTokens, ids \in SUBSET NotificationIds,
          status \in SchemaStatuses :
         (/\ token.signed
          /\ resp'.op = "batch_update"
          /\ resp'.key = <<ids>>
          /\ batch_update_notifications(token, ids, status)) =>
            /\ Len(notifications') = Len(notifications)
            /\ \A k \in 1..Len(notifications) :
                  IF /\ notifications[k].id \in ids
                     /\ notifications[k].user_id = token.sub
                  THEN /\ notifications'[k].id = notifications[k].id
                       /\ notifications'[k].user_id = notifications[k].user_id
                       /\ notifications'[k].read_at = notifications[k].read_at
                  ELSE notifications'[k] = notifications[k]
            /\ resp'.body =
                  <<Cardinality({k \in 1..Len(notifications) :
                       /\ notifications[k].id \in ids
                       /\ notifications[k].user_id = token.sub})>>]_vars

(* a batch update listed another account's notification and passed it by *)
C17_Witness ==
    /\ resp.op = "batch_update" /\ resp.status = 200
    /\ resp.body = <<1>>
    /\ resp.key[1] = NotificationIds
    /\ \E k \in 1..Len(notifications) :
          /\ notifications[k].user_id # resp.uid
          /\ notifications[k].status = "UNREAD"
    /\ \E k \in 1..Len(notifications) :
          /\ notifications[k].user_id = resp.uid
          /\ StatusOf(notifications[k]) = "archived"

(* C18: mark_all_as_read(user_id) moves exactly the caller's unread         *)
(* notifications to read, returns how many it moved, and leaves the         *)
(* caller's read and archived notifications and every notification of       *)
(* another account unchanged; afterwards the caller's unread count is 0.    *)
C18_MarkAllAsRead ==
    [][\A token \in InboxTokens :
         (/\ token.signed
          /\ resp'.op = "read_all"
          /\ mark_all_notifications_as_read(token)) =>
            /\ Len(notifications') = Len(notifications)
            /\ \A k \in 1..Len(notifications) :
                  IF /\ notifications[k].user_id = token.sub
                     /\ StatusOf(notifications[k]) = "unread"
                  THEN /\ StatusOf(notifications'[k]) = "read"
                       /\ notifications'[k].id = notifications[k].id
                       /\ notifications'[k].user_id = notifications[k].user_id
                  ELSE notifications'[k] = notifications[k]
            /\ resp'.body =
                  <<Cardinality({k \in 1..Len(notifications) :
                       /\ notifications[k].user_id = token.sub
                       /\ StatusOf(notifications[k]) = "unread"})>>
            /\ get_unread_count(notifications', token.sub) = 0]_vars

Rank(row) ==
    CASE StatusOf(row) = "unread" -> 0
      [] StatusOf(row) = "read" -> 1
      [] OTHER -> 2

(* C19: while a notification exists its status only moves forward along     *)
(* unread, read, archived: no mark_as_read, mark_all_as_read or             *)
(* batch_update_status call moves it back.                                  *)
C19_ForwardOnly ==
    [][{notifications[k].id : k \in 1..Len(notifications)}
          = {notifications'[k].id : k \in 1..Len(notifications')} =>
         \A k \in 1..Len(notifications), j \in 1..Len(notifications') :
            notifications[k].id = notifications'[j].id =>
               Rank(notifications'[j]) >= Rank(notifications[k])]_vars

----------------------------------------------------------------------------
(* Properties of notification settings under concurrent requests *)

(* C20: each account has at most one NotificationSettings row in every      *)
(* reachable state, and every get_or_create call of an authenticated        *)
(* request returns that row, whatever other request for the same account    *)
(* runs between its lookup and its insert.                                   *)
C20_OneSettingsRow ==
    /\ \A user_id \in Ids(users) :
          Cardinality(SettingsOf(notification_settings, user_id)) <= 1
    /\ (resp.op \in {"get_settings", "update_settings"} /\ resp.uid # NoUser) =>
          /\ resp.status = 200
          /\ SettingsOf(notification_settings, resp.uid) # {}

----------------------------------------------------------------------------
(* Properties of account self-service *)

TrialWindow(user) == <<user.trial_start_date, user.trial_end_date>>

(* C21: trial_start_date and trial_end_date of an account are written only   *)
(* when the trial is granted, by account creation or by set_trial_period:    *)
(* login, last-login update, OAuth linking, profile update, password change  *)
(* and set, soft delete and the notification operations leave them as they   *)
(* were.                                                                     *)
C21_TrialWindowFrame ==
    [][/\ \A i \in Ids(users) :
             TrialWindow(users'[i]) # TrialWindow(users[i]) =>
                resp'.op = "set_trial_period" /\ resp'.uid = i
       /\ \A i \in Ids(users') \ Ids(users) :
             /\ resp'.created
             /\ TrialWindow(users'[i]) =
                   <<clock', clock' + TRIAL_PERIOD_DAYS * DaySeconds>>]_vars

(* an OAuth login of an existing account wrote last_login_at and left the    *)
(* trial window of the registration                                          *)
C21_Witness ==
    /\ resp.op \in OAuthOps /\ resp.detail = "existing"
    /\ users[resp.uid].last_login_at = clock
    /\ users[resp.uid].trial_start_date # clock
    /\ users[resp.uid].hashed_password = get_password_hash("secret2")

(* C22 as stated: current_follows <= max_follows for every account in every  *)
(* reachable state, also after a trial re-grant.                             *)
C22_FollowsWithinQuota ==
    \A i \in Ids(users) : users[i].current_follows <= users[i].max_follows

(* C22 amended: no operation writes current_follows, and max_follows is      *)
(* written by set_trial_period alone, which sets it to TRIAL_MAX_FOLLOWS     *)
(* whatever current_follows is: after a re-grant can_add_follows is true     *)
(* iff the account follows fewer targets than the trial quota.               *)
C22_QuotaResetOnRegrant ==
    [][\A i \in Ids(users) :
         /\ users'[i].current_follows = users[i].current_follows
         /\ IF resp'.op = "set_trial_period" /\ resp'.uid = i
            THEN /\ users'[i].max_follows = TRIAL_MAX_FOLLOWS
                 /\ can_add_follows(users'[i]) =
                       (users[i].current_follows < TRIAL_MAX_FOLLOWS)
            ELSE users'[i].max_follows = users[i].max_follows]_vars

(* a re-grant left an account above its quota *)
C22_Witness ==
    /\ resp.op = "set_trial_period" /\ resp.uid # NoUser
    /\ users[resp.uid].max_follows = TRIAL_MAX_FOLLOWS
    /\ users[resp.uid].current_follows > users[resp.uid].max_follows
    /\ ~can_add_follows(users[resp.uid])

(* C23: set-password gives an auto-registered account its first password:    *)
(* the account that device auto-registration builds passes the checks of     *)
(* set_password; and a set_password request of an authenticated account      *)
(* succeeds and stores the hash when the account has no password, and is     *)
(* rejected with 400, the hash unchanged, when it has one.                   *)
C23_SetPasswordFirstPassword ==
    [][/\ \A g \in GenNames, d \in DeviceIds :
             set_password_check(create_auto_user(g, d, clock), "secret2") = "ok"
       /\ \A token \in AccountTokens :
             (/\ resp'.op = "set_password"
              /\ resp'.key = <<token, "secret2">>
              /\ get_current_user(users, token, clock).status = 200
              /\ set_password(token, "secret2")) =>
                IF users[token.sub].hashed_password = None
                THEN /\ resp'.status = 200
                     /\ users'[token.sub].hashed_password =
                           get_password_hash("secret2")
                ELSE /\ resp'.status = 400
                     /\ users' = users]_vars

(* C28: a login, auto_register or OAuth login request that resolves to an    *)
(* account whose stored status is not active is refused: it is answered      *)
(* with 401 or 403, never with a token envelope, and writes nothing.         *)
C28_NonActiveRefused ==
    [][(/\ resp'.op \in {"login", "auto_register"} \cup OAuthOps
        /\ resp'.uid \in Ids(users)
        /\ users[resp'.uid].status # "active") =>
          /\ resp'.status \in {401, 403}
          /\ users' = users]_vars

----------------------------------------------------------------------------
(* Properties of request failures *)

(* C24: a register_user request that is rejected for a duplicate email or a  *)
(* duplicate username leaves the stored verification code of that email as   *)
(* it was, so that the same code still verifies on a retry.                  *)
C24_RejectedRegistrationKeepsCode ==
    [][\A u \in Usernames, e \in Emails, pw \in Passwords, c \in Codes :
         (/\ resp'.op = "register"
          /\ resp'.detail \in {"dup_email", "dup_username"}
          /\ register_user(u, e, pw, c)) =>
            /\ codes'[e] = codes[e]
            /\ verify_code(codes', e, c, clock')]_vars

(* C25: an OAuth login whose ID token does not validate is answered with     *)
(* 400, not with 500.                                                        *)
C25_InvalidTokenIs400 ==
    (resp.op \in OAuthOps /\ resp.detail = "invalid_token") => resp.status = 400

(* C27: every notification whose status is read has its read_at set, after   *)
(* any sequence of create, mark_as_read, mark_all_as_read and                *)
(* batch_update_status calls.                                                *)
C27_ReadHasReadAt ==
    \A k \in 1..Len(notifications) :
       StatusOf(notifications[k]) = "read" => notifications[k].read_at # NoTime

----------------------------------------------------------------------------
(* Properties of login identifiers *)

(* C29: no account's username equals a different account's email, in every   *)
(* reachable state, so that a login identifier matches at most one account.  *)
C29_IdentifierMatchesOneAccount ==
    /\ \A i, j \in Ids(users) : i # j => users[i].username # users[j].email
    /\ \A ident \in Identifiers :
          Cardinality({i \in Ids(users) : HoldsIdentifier(i, ident)}) <= 1


----------------------------------------------------------------------------
(* Properties of the verification code under concurrent requests *)

(* C30: of two verify_code calls that present the same email and the same    *)
(* code, with no code issued in between, at most one succeeds.               *)
C30_SingleUseUnderConcurrency ==
    ~(resp.op = "verify_code" /\ resp.verified /\ resp.repeat)


----------------------------------------------------------------------------
(* Properties of username synthesis *)

InLoop(p) == At(p, "oa_generate") \/ At(p, "gen_lookup")

(* C26: generate_unique_username returns only a username that no account     *)
(* holds at the time of its lookup; and, candidates being drawn fairly, a    *)
(* call in its retry loop leaves the loop unless every candidate username    *)
(* comes to be held.                                                         *)
C26_UniqueUsernameLoop ==
    /\ [][\A p \in Procs :
            (gen_lookup(p) /\ procs'[p].pc = "oa_create") =>
               \A i \in Ids(users) : users[i].username # procs'[p].u]_vars
    /\ \A p \in Procs :
          InLoop(p) ~> (~InLoop(p) \/ generate_unique_username(users) = {})

(* a call has gone round the loop, drawn a free candidate and returned it    *)
(* while an account holds the other candidate                                *)
C26_Witness ==
    \E p \in Procs :
       /\ At(p, "oa_create") /\ procs[p].retried
       /\ get_by_username(users, procs[p].u) = NoUser
       /\ users # <<>>


====
